---------------------------- MODULE Spec2Model ----------------------------
(***************************************************************************)
(* A model of turmac (src/turmac.py): a Turing machine emulator.           *)
(*                                                                         *)
(* A Machine holds a Tape (a Python list of Squares, each holding a        *)
(* boolean symbol), a Program (a 1-based list of States, each a pair of    *)
(* Behaviors), the head position square_i and the state index state_i      *)
(* (0 means halt).  Iterating the Machine (__next__) performs one step     *)
(* and returns a Move; an Operator collects the Moves of a run.            *)
(*                                                                         *)
(* Python values are modelled as follows.                                  *)
(*   - a list is a sequence; Python index i is position i + 1;             *)
(*   - a Square is its boolean symbol;                                     *)
(*   - an optional value (an attribute that may be unset, a return value   *)
(*     that may be missing) is a sequence of length 0 or 1;                *)
(*   - a call that may raise returns [exc, val]: exc is "none" and val     *)
(*     holds the value, or exc names the exception and val is empty.       *)
(***************************************************************************)
EXTENDS Integers, Sequences, FiniteSets, TLC

VARIABLES
    tape,           \* Machine.tape.squares: sequence of BOOLEAN
    program,        \* Machine.program.states: sequence of State records
    square_i,       \* Machine.square_i (0-based head position)
    state_i,        \* Machine.state_i (0 means halt)
    configuration,  \* Machine.configuration: <<>> while the attribute is unset
    moves,          \* Operator.moves: <<>> while the attribute is unset, else
                    \* <<the list of Moves>>
    pc,             \* the caller: "idle", "operate" (inside list(machine)),
                    \* "operated" (operate has just returned)
    acc,            \* the list that list(self.machine) is building
    last,           \* the last call on the machine: [op, arg, exc, val]
    clock,          \* number of steps completed since construction
    started,        \* the value of clock when operate was last called
    default_squares,  \* the list [Square()] that is the default value of
                      \* the parameter squares of Tape.__init__
    tape_is_default,  \* Machine.tape.squares is that list
    pattern         \* tape_pattern of the last call of Adder.calculate

vars == <<tape, program, square_i, state_i, configuration, moves, pc, acc,
          last, clock, started, default_squares, tape_is_default, pattern>>

-----------------------------------------------------------------------------
(* Bounds of the model *)

MaxTapeLen == 3

MaxSteps == 5

MaxIndex == 5

MaxUnary == 3

-----------------------------------------------------------------------------
(* Results of calls *)

Return(v) == [exc |-> "none", val |-> <<v>>]

Raise(e) == [exc |-> e, val |-> <<>>]

-----------------------------------------------------------------------------
(* Square, Tape *)

\* Square(): the default symbol of a new square
Square_default == FALSE

\* list subscript list[i] of Python: the position (1-based) that index i
\* designates in a list of length n, or 0 when list[i] raises IndexError.
\* Negative indices count from the end of the list.
ListPos(n, i) ==
    IF 0 <= i /\ i < n THEN i + 1
    ELSE IF i < 0 /\ -n <= i THEN n + i + 1
    ELSE 0

ListGetItem(list, i) ==
    IF ListPos(Len(list), i) = 0
    THEN Raise("IndexError")
    ELSE Return(list[ListPos(Len(list), i)])

\* Tape.__getitem__
Tape_getitem(squares, i) == ListGetItem(squares, i)

\* Tape.__len__
Tape_len(squares) == Len(squares)

\* a feed_left that puts the blank square at the right end
feed_left_at_end(squares) == Append(squares, Square_default)

\* Tape.feed_left: self.squares.insert(0, Square())
feed_left(squares) == <<Square_default>> \o squares

\* a feed_right that appends a marked square
feed_right_marked(squares) == Append(squares, TRUE)

\* Tape.feed_right: self.squares.append(Square())
feed_right(squares) == Append(squares, Square_default)

\* tape[i].symbol = symbol: the cell is fetched with Tape.__getitem__ and
\* its symbol is assigned in place
Tape_setsymbol(squares, i, symbol) ==
    IF Tape_getitem(squares, i).exc # "none"
    THEN Raise(Tape_getitem(squares, i).exc)
    ELSE Return([squares EXCEPT ![ListPos(Len(squares), i)] = symbol])

\* [bool(s) for s in self.tape]: a new list of the symbols
Tape_symbols(squares) == [k \in 1..Len(squares) |-> squares[k]]

-----------------------------------------------------------------------------
(* Behavior, State, Program *)

Behavior(symbol, goes_right, next_i) ==
    [symbol |-> symbol, goes_right |-> goes_right, state_i |-> next_i]

State(when_false, when_true) ==
    [when_false |-> when_false, when_true |-> when_true]

\* State.__getitem__
State_getitem(state, p) ==
    IF p = FALSE THEN state.when_false ELSE state.when_true

\* a Program.__getitem__ without the test i < 1
Program_getitem_noguard(states, i) == ListGetItem(states, i - 1)

\* Program.__getitem__
Program_getitem(states, i) ==
    IF i < 1
    THEN Raise("IndexError")
    ELSE ListGetItem(states, i - 1)

-----------------------------------------------------------------------------
(* Move *)

\* Move.__init__: note the assignment self.from_state_i = from_square_i
Move(symbols, from_square_i, to_square_i, from_state_i, to_state_i) ==
    [symbols       |-> symbols,
     from_square_i |-> from_square_i,
     to_square_i   |-> to_square_i,
     from_state_i  |-> from_square_i,
     to_state_i    |-> to_state_i]

-----------------------------------------------------------------------------
(* Machine: the methods as functions of the object self *)

Machine(squares, states) ==
    [tape |-> squares, program |-> states, square_i |-> 0, state_i |-> 1,
     configuration |-> <<>>]

\* a scan that looks up the next state of the behavior it finds as well
scan_checked(self) ==
    LET sq == Tape_getitem(self.tape, self.square_i)
        st == Program_getitem(self.program, self.state_i)
    IN  IF sq.exc # "none" THEN Raise(sq.exc)
        ELSE IF st.exc # "none" THEN Raise(st.exc)
        ELSE IF /\ State_getitem(st.val[1], sq.val[1]).state_i # 0
                /\ Program_getitem(self.program,
                      State_getitem(st.val[1], sq.val[1]).state_i).exc
                     # "none"
        THEN Raise("IndexError")
        ELSE Return([self EXCEPT
                 !.configuration = <<State_getitem(st.val[1], sq.val[1])>>])

\* Machine.scan; the result's val is the updated object
scan(self) ==
    LET sq == Tape_getitem(self.tape, self.square_i)
        st == Program_getitem(self.program, self.state_i)
    IN  IF sq.exc # "none" THEN Raise(sq.exc)
        ELSE IF st.exc # "none" THEN Raise(st.exc)
        ELSE Return([self EXCEPT
                 !.configuration = <<State_getitem(st.val[1], sq.val[1])>>])

\* a stamp that leaves the square as it is
stamp_skip(self) == Return(self)

\* Machine.stamp; the result's val is the updated object
stamp(self) ==
    LET w == Tape_setsymbol(self.tape, self.square_i,
                            self.configuration[1].symbol)
    IN  IF w.exc # "none" THEN Raise(w.exc)
        ELSE Return([self EXCEPT !.tape = w.val[1]])

\* a change_square that feeds the tape one square too early when moving left
change_square_feed_early(self) ==
    LET goes_right == self.configuration[1].goes_right
        goes_left == ~goes_right
        last_i == Tape_len(self.tape) - 1
    IN  IF goes_left /\ self.square_i <= 1
        THEN [self EXCEPT !.tape = feed_left(self.tape)]
        ELSE IF goes_left
        THEN [self EXCEPT !.square_i = self.square_i - 1]
        ELSE IF goes_right /\ self.square_i = last_i
        THEN [self EXCEPT !.tape = feed_right(self.tape),
                          !.square_i = self.square_i + 1]
        ELSE [self EXCEPT !.square_i = self.square_i + 1]

\* a change_square that moves right past the last square without feeding
change_square_nofeed(self) ==
    LET goes_right == self.configuration[1].goes_right
        goes_left == ~goes_right
    IN  IF goes_left /\ self.square_i = 0
        THEN [self EXCEPT !.tape = feed_left(self.tape)]
        ELSE IF goes_left
        THEN [self EXCEPT !.square_i = self.square_i - 1]
        ELSE [self EXCEPT !.square_i = self.square_i + 1]

\* a change_square that feeds the tape at the right end and leaves the
\* head where it is
change_square_right_stay(self) ==
    LET goes_right == self.configuration[1].goes_right
        goes_left == ~goes_right
        last_i == Tape_len(self.tape) - 1
    IN  IF goes_left /\ self.square_i = 0
        THEN [self EXCEPT !.tape = feed_left(self.tape)]
        ELSE IF goes_left
        THEN [self EXCEPT !.square_i = self.square_i - 1]
        ELSE IF goes_right /\ self.square_i = last_i
        THEN [self EXCEPT !.tape = feed_right(self.tape)]
        ELSE [self EXCEPT !.square_i = self.square_i + 1]

\* Machine.change_square
change_square(self) ==
    LET goes_right == self.configuration[1].goes_right
        goes_left == ~goes_right
        last_i == Tape_len(self.tape) - 1
    IN  IF goes_left /\ self.square_i = 0
        THEN [self EXCEPT !.tape = feed_left(self.tape)]
        ELSE IF goes_left
        THEN [self EXCEPT !.square_i = self.square_i - 1]
        ELSE IF goes_right /\ self.square_i = last_i
        THEN [self EXCEPT !.tape = feed_right(self.tape),
                          !.square_i = self.square_i + 1]
        ELSE [self EXCEPT !.square_i = self.square_i + 1]

\* a change_state that forgets to move to the next state
change_state_stay(self) == self

\* a change_state that halts the machine instead of entering the state it
\* is already in
change_state_no_loop(self) ==
    [self EXCEPT !.state_i = IF self.configuration[1].state_i = self.state_i
                             THEN 0
                             ELSE self.configuration[1].state_i]

\* Machine.change_state
change_state(self) == [self EXCEPT !.state_i = self.configuration[1].state_i]

\* a __next__ without the halt test of its first two lines
Machine_next_nohalt(self) ==
    IF scan(self).exc # "none"
    THEN [exc |-> scan(self).exc, self |-> self, val |-> <<>>]
    ELSE LET stamped == stamp(scan(self).val[1]).val[1]
             after == change_state(change_square(stamped))
         IN  [exc |-> "none", self |-> after,
              val |-> <<Move(Tape_symbols(after.tape), stamped.square_i,
                             after.square_i, stamped.state_i,
                             after.state_i)>>]

\* a __next__ that stops the iteration as soon as the step reaches state 0,
\* without returning the Move of that step
Machine_next_stop_early(self) ==
    IF self.state_i = 0 \/ scan(self).exc # "none"
    THEN [exc |-> IF self.state_i = 0 THEN "StopIteration"
                  ELSE scan(self).exc,
          self |-> self, val |-> <<>>]
    ELSE LET stamped == stamp(scan(self).val[1]).val[1]
             after == change_state(change_square(stamped))
         IN  IF after.state_i = 0
             THEN [exc |-> "StopIteration", self |-> after, val |-> <<>>]
             ELSE [exc |-> "none", self |-> after,
                   val |-> <<Move(Tape_symbols(after.tape), stamped.square_i,
                                  after.square_i, stamped.state_i,
                                  after.state_i)>>]

\* a __next__ that reads from_square_i after change_square
Machine_next_late_from(self) ==
    IF self.state_i = 0 \/ scan(self).exc # "none"
    THEN [exc |-> IF self.state_i = 0 THEN "StopIteration"
                  ELSE scan(self).exc,
          self |-> self, val |-> <<>>]
    ELSE LET stamped == stamp(scan(self).val[1]).val[1]
             after == change_state(change_square(stamped))
         IN  [exc |-> "none", self |-> after,
              val |-> <<Move(Tape_symbols(after.tape), after.square_i,
                             after.square_i, stamped.state_i,
                             after.state_i)>>]

\* Machine.__next__: [exc, self, val]; val holds the Move returned
Machine_next(self) ==
    IF self.state_i = 0
    THEN [exc |-> "StopIteration", self |-> self, val |-> <<>>]
    ELSE IF scan(self).exc # "none"
    THEN [exc |-> scan(self).exc, self |-> self, val |-> <<>>]
    ELSE IF stamp(scan(self).val[1]).exc # "none"
    THEN [exc |-> stamp(scan(self).val[1]).exc, self |-> scan(self).val[1],
          val |-> <<>>]
    ELSE LET stamped == stamp(scan(self).val[1]).val[1]
             from_square_i == stamped.square_i
             from_state_i == stamped.state_i
             after == change_state(change_square(stamped))
             to_square_i == after.square_i
             to_state_i == after.state_i
         IN  [exc |-> "none", self |-> after,
              val |-> <<Move(Tape_symbols(after.tape), from_square_i,
                             to_square_i, from_state_i, to_state_i)>>]

\* a rewind that resets the head only
rewind_head_only(self) ==
    [self EXCEPT !.square_i = 0, !.configuration = <<>>]

\* Machine.rewind
rewind(self) ==
    [self EXCEPT !.square_i = 0, !.state_i = 1, !.configuration = <<>>]

-----------------------------------------------------------------------------
(* Inputs *)

Symbols == BOOLEAN

\* the tapes of Tape.from_pattern for the patterns of length 1..MaxTapeLen
Tapes == UNION {[1..n -> Symbols] : n \in 1..MaxTapeLen}

\* next-state indices of a one-state table: halt, the state, and the
\* indices next to the table on both sides ('oR-1' is a pattern that
\* Behavior.from_pattern takes)
OneStateNext == {-1, 0, 1, 2}

OneStateBehaviors ==
    {Behavior(s, r, n) : s \in Symbols, r \in BOOLEAN, n \in OneStateNext}

OneStatePrograms ==
    {<<State(f, t)>> : f \in OneStateBehaviors, t \in OneStateBehaviors}

\* next-state indices of a two-state table: halt, both states, and one
\* index beyond the table
TwoStateNext == {0, 1, 2, 3}

TwoStateBehaviors ==
    {Behavior(s, r, n) : s \in Symbols, r \in BOOLEAN, n \in TwoStateNext}

\* two-state tables: state 2 holds the behaviors of state 1, exchanged
TwoStatePrograms ==
    {<<State(a, b), State(b, a)>> :
        a \in TwoStateBehaviors, b \in TwoStateBehaviors}

\* Program(): the default table, with no states
EmptyProgram == <<>>

\* the table of examples.py with 'oR0,xR0' as its last state
AdderProgram_keep ==
    <<State(Behavior(FALSE, TRUE, 0), Behavior(FALSE, TRUE, 2)),
      State(Behavior(TRUE, FALSE, 3), Behavior(TRUE, TRUE, 2)),
      State(Behavior(FALSE, TRUE, 4), Behavior(TRUE, FALSE, 3)),
      State(Behavior(FALSE, TRUE, 0), Behavior(TRUE, TRUE, 0))>>

\* the table of examples.py: ['oR0,oR2', 'xL3,xR2', 'oR4,xL3', 'oR0,oR0']
AdderProgram ==
    <<State(Behavior(FALSE, TRUE, 0), Behavior(FALSE, TRUE, 2)),
      State(Behavior(TRUE, FALSE, 3), Behavior(TRUE, TRUE, 2)),
      State(Behavior(FALSE, TRUE, 4), Behavior(TRUE, FALSE, 3)),
      State(Behavior(FALSE, TRUE, 0), Behavior(FALSE, TRUE, 0))>>

Programs ==
    OneStatePrograms \cup TwoStatePrograms \cup {EmptyProgram, AdderProgram}

-----------------------------------------------------------------------------
(* The state machine *)

\* the Machine object assembled from its fields
Self ==
    [tape |-> tape, program |-> program, square_i |-> square_i,
     state_i |-> state_i, configuration |-> configuration]

\* the fields of the Machine after a method has run; the squares of its
\* tape are changed in place, so a tape built by Tape() shows the changes
\* in the default list
Store(self) ==
    /\ tape' = self.tape
    /\ program' = self.program
    /\ square_i' = self.square_i
    /\ state_i' = self.state_i
    /\ configuration' = self.configuration
    /\ default_squares' = IF tape_is_default THEN self.tape
                          ELSE default_squares
    /\ UNCHANGED tape_is_default

Call(op, arg, exc, val) == [op |-> op, arg |-> arg, exc |-> exc, val |-> val]

\* Operator.from_patterns(tape_pattern, program_patterns): a Machine with
\* head 0 and state 1, and moves = []
InitWith(tapes, programs) ==
    /\ tape \in tapes
    /\ program \in programs
    /\ square_i = Machine(tape, program).square_i
    /\ state_i = Machine(tape, program).state_i
    /\ configuration = Machine(tape, program).configuration
    /\ moves = <<<<>>>>
    /\ pc = "idle"
    /\ acc = <<>>
    /\ last = Call("__init__", <<>>, "none", <<>>)
    /\ clock = 0
    /\ started = 0
    /\ default_squares = <<Square_default>>
    /\ tape_is_default = FALSE
    /\ pattern = <<>>

Init == InitWith(Tapes, Programs)

\* the model explores at most MaxSteps completed steps
StepAllowed == state_i = 0 \/ clock < MaxSteps

\* the caller is not inside operate
Idle == pc \in {"idle", "operated"}

\* next(machine), called by the user of the Machine
Step ==
    /\ Idle
    /\ StepAllowed
    /\ Store(Machine_next(Self).self)
    /\ last' = Call("__next__", <<>>, Machine_next(Self).exc,
                    Machine_next(Self).val)
    /\ clock' = IF Machine_next(Self).exc = "none" THEN clock + 1 ELSE clock
    /\ pc' = "idle"
    /\ UNCHANGED <<moves, acc, started, pattern>>

\* machine.rewind()
Rewind ==
    /\ Idle
    /\ Store(rewind(Self))
    /\ last' = Call("rewind", <<>>, "none", <<>>)
    /\ pc' = "idle"
    /\ UNCHANGED <<moves, acc, clock, started, pattern>>

\* Operator.operate: list(self.machine) starts with an empty list
OperateBegin ==
    /\ Idle
    /\ pc' = "operate"
    /\ acc' = <<>>
    /\ started' = clock
    /\ UNCHANGED <<tape, program, square_i, state_i, configuration, moves,
                   last, clock, default_squares, tape_is_default, pattern>>

\* an operate whose Moves hold the live squares of the tape instead of a
\* copy of the symbols: every Move collected so far shows the tape as it is
OperateIter_live ==
    /\ pc = "operate"
    /\ Store(Machine_next(Self).self)
    /\ last' = Call("__next__", <<>>, Machine_next(Self).exc,
                    Machine_next(Self).val)
    /\ clock' = IF Machine_next(Self).exc = "none" THEN clock + 1 ELSE clock
    /\ IF Machine_next(Self).exc = "none"
       THEN /\ acc' = Append([k \in 1..Len(acc) |->
                                [acc[k] EXCEPT !.symbols = tape']],
                             Machine_next(Self).val[1])
            /\ UNCHANGED <<moves, pc>>
       ELSE IF Machine_next(Self).exc = "StopIteration"
       THEN /\ moves' = <<acc>>
            /\ acc' = <<>>
            /\ pc' = "operated"
       ELSE /\ acc' = <<>>
            /\ pc' = "idle"
            /\ UNCHANGED moves
    /\ UNCHANGED <<started, pattern>>

\* Operator.operate: one iteration of list(self.machine).  A Move is
\* appended to the list; StopIteration ends the loop and the list is
\* assigned to self.moves; any other exception leaves operate.
OperateIter ==
    /\ pc = "operate"
    /\ Store(Machine_next(Self).self)
    /\ last' = Call("__next__", <<>>, Machine_next(Self).exc,
                    Machine_next(Self).val)
    /\ clock' = IF Machine_next(Self).exc = "none" THEN clock + 1 ELSE clock
    /\ IF Machine_next(Self).exc = "none"
       THEN /\ acc' = Append(acc, Machine_next(Self).val[1])
            /\ UNCHANGED <<moves, pc>>
       ELSE IF Machine_next(Self).exc = "StopIteration"
       THEN /\ moves' = <<acc>>
            /\ acc' = <<>>
            /\ pc' = "operated"
       ELSE /\ acc' = <<>>
            /\ pc' = "idle"
            /\ UNCHANGED moves
    /\ UNCHANGED <<started, pattern>>

\* the iterations of operate that the model explores
OperateNext == StepAllowed /\ OperateIter

Next ==
    \/ Step
    \/ Rewind
    \/ OperateBegin
    \/ OperateNext

Spec == Init /\ [][Next]_vars

-----------------------------------------------------------------------------
(* Direct accesses to the table and the tape of a new Machine *)

\* the indices a caller may pass
Indices == (-MaxIndex)..MaxIndex

\* tables of 0 to 4 states: the first states of the table of examples.py
PrefixPrograms == {SubSeq(AdderProgram, 1, n) : n \in 0..Len(AdderProgram)}

\* tables of one state that marks the square and goes to itself, such as
\* ['xR1,xR1']
LoopPrograms ==
    {<<State(Behavior(TRUE, r, 1), Behavior(TRUE, r, 1))>> : r \in BOOLEAN}

\* a new Machine whose table is one of PrefixPrograms or of LoopPrograms
InitAccess == InitWith(Tapes, PrefixPrograms \cup LoopPrograms)

\* machine.program[i]
ProgramLookup ==
    /\ \E i \in Indices :
         last' = Call("Program.__getitem__", <<i>>,
                      Program_getitem(program, i).exc,
                      Program_getitem(program, i).val)
    /\ UNCHANGED <<tape, program, square_i, state_i, configuration, moves,
                   pc, acc, clock, started, default_squares,
                   tape_is_default, pattern>>

\* machine.tape[i]
TapeRead ==
    /\ \E i \in Indices :
         last' = Call("Tape.__getitem__", <<i>>,
                      Tape_getitem(tape, i).exc, Tape_getitem(tape, i).val)
    /\ UNCHANGED <<tape, program, square_i, state_i, configuration, moves,
                   pc, acc, clock, started, default_squares,
                   tape_is_default, pattern>>

\* machine.tape[i].symbol = v
TapeWrite ==
    /\ \E i \in Indices, v \in Symbols :
         /\ tape' = IF Tape_setsymbol(tape, i, v).exc = "none"
                    THEN Tape_setsymbol(tape, i, v).val[1]
                    ELSE tape
         /\ last' = Call("Tape.setsymbol", <<i, v>>,
                         Tape_setsymbol(tape, i, v).exc, <<>>)
    /\ default_squares' = IF tape_is_default THEN tape' ELSE default_squares
    /\ UNCHANGED <<program, square_i, state_i, configuration, moves, pc, acc,
                   clock, started, tape_is_default, pattern>>

\* machine.scan(), called by the user of the Machine
Scan ==
    /\ Idle
    /\ Store(IF scan(Self).exc = "none" THEN scan(Self).val[1] ELSE Self)
    /\ last' = Call("scan", <<>>, scan(Self).exc, <<>>)
    /\ pc' = "idle"
    /\ UNCHANGED <<moves, acc, clock, started, pattern>>

\* machine.stamp(); without a scan before it there is no attribute
\* configuration to read
Stamp ==
    /\ Idle
    /\ IF configuration = <<>>
       THEN /\ Store(Self)
            /\ last' = Call("stamp", <<>>, "AttributeError", <<>>)
       ELSE /\ Store(IF stamp(Self).exc = "none"
                     THEN stamp(Self).val[1] ELSE Self)
            /\ last' = Call("stamp", <<>>, stamp(Self).exc, <<>>)
    /\ pc' = "idle"
    /\ UNCHANGED <<moves, acc, clock, started, pattern>>

\* machine.change_square(); the model explores the calls on tapes of up to
\* MaxTapeLen squares
ChangeSquare ==
    /\ Idle
    /\ Len(tape) <= MaxTapeLen
    /\ IF configuration = <<>>
       THEN /\ Store(Self)
            /\ last' = Call("change_square", <<>>, "AttributeError", <<>>)
       ELSE /\ Store(change_square(Self))
            /\ last' = Call("change_square", <<>>, "none", <<>>)
    /\ pc' = "idle"
    /\ UNCHANGED <<moves, acc, clock, started, pattern>>

\* machine.change_state()
ChangeState ==
    /\ Idle
    /\ IF configuration = <<>>
       THEN /\ Store(Self)
            /\ last' = Call("change_state", <<>>, "AttributeError", <<>>)
       ELSE /\ Store(change_state(Self))
            /\ last' = Call("change_state", <<>>, "none", <<>>)
    /\ pc' = "idle"
    /\ UNCHANGED <<moves, acc, clock, started, pattern>>

\* the calls that a user makes on the parts of a Machine, and on the
\* methods that a step is made of
AccessNext ==
    \/ ProgramLookup
    \/ TapeRead
    \/ TapeWrite
    \/ Scan
    \/ Stamp
    \/ ChangeSquare
    \/ ChangeState

SpecAccess == InitAccess /\ [][AccessNext]_vars

-----------------------------------------------------------------------------
(* Tapes and Machines built with the default Tape *)

\* Tape(): self.squares is the default value of the parameter squares,
\* the list that was built once, when the def statement ran
Tape_init_default == default_squares

\* Machine(Tape(), program), as in Adder.__init__, for the one-state tables
\* and the table of examples.py.  Adder.__init__ does not call
\* Operator.__init__: there is no attribute moves before the first operate.
InitDefault ==
    /\ default_squares = <<Square_default>>
    /\ tape = Tape_init_default
    /\ tape_is_default = TRUE
    /\ program \in OneStatePrograms \cup {AdderProgram}
    /\ square_i = Machine(tape, program).square_i
    /\ state_i = Machine(tape, program).state_i
    /\ configuration = Machine(tape, program).configuration
    /\ moves = <<>>
    /\ pc = "idle"
    /\ acc = <<>>
    /\ last = Call("__init__", <<>>, "none", <<>>)
    /\ clock = 0
    /\ started = 0
    /\ pattern = <<>>

\* t = Tape(): the caller builds another Tape and looks at its squares
NewTape ==
    /\ Idle
    /\ last' = Call("Tape.__init__", <<>>, "none", <<Tape_init_default>>)
    /\ UNCHANGED <<tape, program, square_i, state_i, configuration, moves,
                   pc, acc, clock, started, default_squares,
                   tape_is_default, pattern>>

\* Tape().feed_left() or Tape().feed_right(), called on another Tape built
\* with no arguments, up to MaxTapeLen + 1 squares
TapeFeed ==
    /\ Idle
    /\ Len(default_squares) <= MaxTapeLen
    /\ \/ default_squares' = feed_left(default_squares)
       \/ default_squares' = feed_right(default_squares)
    /\ tape' = IF tape_is_default THEN default_squares' ELSE tape
    /\ last' = Call("Tape.feed", <<>>, "none", <<>>)
    /\ UNCHANGED <<program, square_i, state_i, configuration, moves, pc, acc,
                   clock, started, tape_is_default, pattern>>

DefaultNext ==
    \/ Step
    \/ Rewind
    \/ NewTape
    \/ TapeFeed

SpecDefault == InitDefault /\ [][DefaultNext]_vars

-----------------------------------------------------------------------------
(* The Adder of examples.py *)

\* Square.from_pattern: 'o' and 'x' give a Square with symbol False and
\* True; any other pattern raises ValueError
Square_from_pattern(c) ==
    IF c \notin {"o", "x"}
    THEN Raise("ValueError")
    ELSE Return(c = "x")

\* Tape.from_pattern: cls([Square.from_pattern(x) for x in pattern])
Tape_from_pattern(p) ==
    IF \E k \in 1..Len(p) : Square_from_pattern(p[k]).exc # "none"
    THEN Raise("ValueError")
    ELSE Return([k \in 1..Len(p) |-> Square_from_pattern(p[k]).val[1]])

\* the pattern of m marks, one blank and n marks
UnaryPair(m, n) == [k \in 1..(m + n + 1) |-> IF k = m + 1 THEN "o" ELSE "x"]

\* the patterns of the calls of examples.py: 'xxoxx', 'xxxxxox',
\* 'xxxxxxxxxoxxxx'
ExamplePatterns == {UnaryPair(2, 2), UnaryPair(5, 1), UnaryPair(9, 4)}

AdderPatterns ==
    {UnaryPair(m, n) : m \in 1..MaxUnary, n \in 1..MaxUnary}
        \cup ExamplePatterns

\* patterns that are not made of 'o' and 'x' only
MalformedPatterns == {<<"x", "x", " ", "x", "x">>}

\* the arguments of Adder.calculate
CalculatePatterns == AdderPatterns \cup MalformedPatterns

\* Adder(): Machine(Tape(), Program.from_patterns([...]))
InitAdder ==
    /\ program = AdderProgram
    /\ InitDefault

\* Adder.calculate(tape_pattern): rewinds the machine, gives it a new tape
\* made from the pattern, and lets admire operate it (admire reads the
\* tape, calls operate and renders the moves).  A pattern that
\* Tape.from_pattern does not take leaves the rewound machine with the tape
\* it had.  The model explores further calls while fewer than MaxSteps
\* steps have been completed.
Calculate ==
    /\ Idle
    /\ clock < MaxSteps
    /\ program' = rewind(Self).program
    /\ square_i' = rewind(Self).square_i
    /\ state_i' = rewind(Self).state_i
    /\ configuration' = rewind(Self).configuration
    /\ \E p \in CalculatePatterns :
         /\ pattern' = p
         /\ IF Tape_from_pattern(p).exc # "none"
            THEN /\ last' = Call("calculate", <<p>>,
                                 Tape_from_pattern(p).exc, <<>>)
                 /\ pc' = "idle"
                 /\ UNCHANGED <<tape, tape_is_default, acc, started>>
            ELSE /\ tape' = Tape_from_pattern(p).val[1]
                 /\ tape_is_default' = FALSE
                 /\ last' = Call("calculate", <<p>>, "none", <<>>)
                 /\ pc' = "operate"
                 /\ acc' = <<>>
                 /\ started' = clock
    /\ UNCHANGED <<moves, clock, default_squares>>

AdderNext ==
    \/ Calculate
    \/ OperateIter
    \/ Step
    \/ Rewind

\* an iteration of the loop of list(self.machine), as the caller sees it:
\* one more step is completed, or the loop is left
OperateProgress ==
    /\ pc = "operate"
    /\ \/ clock' = clock + 1 /\ pc' = "operate"
       \/ clock' = clock /\ pc' \in {"operated", "idle"}

\* the loop of list(self.machine) goes on until __next__ raises: inside
\* operate every transition is an iteration of OperateIter
SpecAdder ==
    InitAdder /\ [][AdderNext]_vars /\ WF_<<pc, clock>>(OperateProgress)

-----------------------------------------------------------------------------
(* Properties of the step *)

\* the transition is a call of __next__ (calling operate leaves last as it
\* is and moves the caller into the loop of list(machine))
NextCalled == last'.op = "__next__" /\ (pc' = "operate" => pc = "operate")

\* the transition is a call of __next__ that returned a Move
StepDone == NextCalled /\ last'.exc = "none"

\* the Behavior of the table for the current state and the scanned symbol
Scanned ==
    IF tape[square_i + 1]
    THEN program[state_i].when_true
    ELSE program[state_i].when_false

\* C1: in a Running state whose state index s is in 1..N, a call of
\* __next__ completes a step that applies b = table[s][c] for the scanned
\* symbol c: the square that was under the head holds b.symbol, the head
\* is one square further in b's direction (after a move left from square 0
\* the head is on the new square 0 and the old square has index 1), and the
\* state index is b.state_i.
C1_StepAppliesBehavior ==
    [][(NextCalled /\ state_i \in 1..Len(program))
        => /\ last'.exc = "none"
           /\ state_i' = Scanned.state_i
           /\ IF Scanned.goes_right
              THEN /\ square_i' = square_i + 1
                   /\ tape'[square_i + 1] = Scanned.symbol
              ELSE IF square_i > 0
              THEN /\ square_i' = square_i - 1
                   /\ tape'[square_i + 1] = Scanned.symbol
              ELSE /\ square_i' = 0
                   /\ Len(tape') = Len(tape) + 1
                   /\ tape'[2] = Scanned.symbol]_vars

\* C1 witness: a step of state 2 of a two-state table has moved the head
\* right to square 2 and written the symbol it scanned
C1_Witness ==
    /\ last.op = "__next__"
    /\ last.exc = "none"
    /\ Len(program) = 2
    /\ state_i = 2
    /\ square_i = 2
    /\ clock = 2
    /\ tape[2] = program[1].when_true.symbol

\* C2: in the Halted state (state index 0) a call of __next__ raises
\* StopIteration, returns no Move, adds nothing to the list being built and
\* leaves tape, head and state index as they are; only rewind leaves the
\* Halted state.
C2_HaltedStepIsNoOp ==
    [][state_i = 0
        => /\ NextCalled
                => /\ last'.exc = "StopIteration"
                   /\ last'.val = <<>>
                   /\ tape' = tape
                   /\ square_i' = square_i
                   /\ state_i' = 0
                   /\ Len(acc') <= Len(acc)
           /\ state_i' # 0 => last'.op = "rewind"]_vars

\* C2 witness: a halted machine whose tape has grown was stepped again
C2_Witness ==
    /\ state_i = 0
    /\ last.op = "__next__"
    /\ last.exc = "StopIteration"
    /\ Len(tape) > MaxTapeLen

\* C3: the head position is a valid index of the tape
C3_HeadInRange == 0 <= square_i /\ square_i <= Len(tape) - 1

\* C3 witness: after more steps than the tape had squares, the head stands
\* on the last square of a tape that has been extended
C3_Witness ==
    /\ last.op = "__next__"
    /\ last.exc = "none"
    /\ Len(tape) = MaxTapeLen + 1
    /\ square_i = MaxTapeLen
    /\ clock > MaxTapeLen

\* C4: the length of the tape never decreases; a completed step adds
\* exactly one square when it moves left from square 0 or right from the
\* last square, and no other transition changes the length.
C4_TapeLength ==
    [][/\ Len(tape') >= Len(tape)
       /\ StepDone
            => Len(tape') = Len(tape) +
                 (IF \/ ~Scanned.goes_right /\ square_i = 0
                     \/ Scanned.goes_right /\ square_i = Len(tape) - 1
                  THEN 1 ELSE 0)
       /\ ~StepDone => Len(tape') = Len(tape)]_vars

\* C4 witness: after more than two steps, of which at least two extended
\* the tape, a step has moved left from square 0
C4_Witness ==
    /\ last.op = "__next__"
    /\ last.exc = "none"
    /\ last.val[1].from_square_i = 0
    /\ square_i = 0
    /\ Len(tape) = MaxTapeLen + 2
    /\ clock > 2

\* C5: when operate returns, self.moves holds one Move for each step of
\* the run, the last Move (it shows the final tape) has to_state_i = 0 and
\* every earlier Move has to_state_i # 0.
C5_RunToHalt ==
    pc = "operated"
        => /\ Len(moves[1]) = clock - started
           /\ \A k \in 1..(Len(moves[1]) - 1) : moves[1][k].to_state_i # 0
           /\ Len(moves[1]) > 0
                => /\ moves[1][Len(moves[1])].to_state_i = 0
                   /\ moves[1][Len(moves[1])].symbols = tape

\* C5 witness: operate has returned after a run of at least three steps
C5_Witness == pc = "operated" /\ Len(moves[1]) >= 3 /\ clock - started >= 3

\* C6: rewind sets the head to 0 and the state index to 1, removes the
\* configuration and leaves the tape as it is.
C6_Rewind ==
    [][last'.op = "rewind"
        => /\ square_i' = 0
           /\ state_i' = 1
           /\ configuration' = <<>>
           /\ tape' = tape]_vars

\* C6 witness: rewind was called after a run whose last Move left the head
\* off square 0; the tape, grown by the run, is the one that Move shows
C6_Witness ==
    /\ last.op = "rewind"
    /\ Len(tape) > MaxTapeLen
    /\ clock >= 2
    /\ Len(moves[1]) >= 2
    /\ moves[1][Len(moves[1])].to_square_i > 0
    /\ moves[1][Len(moves[1])].symbols = tape

\* C7: the Move of a step holds the state index before the step in
\* from_state_i and the state index after the step in to_state_i.
C7_MoveStates ==
    [][StepDone
        => /\ last'.val[1].from_state_i = state_i
           /\ last'.val[1].to_state_i = state_i']_vars

\* C8: the Move of a step holds the symbols of the tape after the step,
\* the head position before the step in from_square_i and the head
\* position after the step in to_square_i; so the first Move after the
\* construction or a rewind has from_square_i = 0 and the Move of a step
\* that follows another step starts where that Move ended.
C8_MoveSquares ==
    [][StepDone
        => /\ last'.val[1].symbols = tape'
           /\ Len(last'.val[1].symbols) = Len(tape')
           /\ last'.val[1].from_square_i = square_i
           /\ last'.val[1].to_square_i = square_i'
           /\ last.op \in {"__init__", "rewind"}
                => last'.val[1].from_square_i = 0
           /\ (last.op = "__next__" /\ last.exc = "none")
                => last'.val[1].from_square_i = last.val[1].to_square_i]_vars

\* C8 witness: the second Move of a run starts on square 1, where the first
\* Move ended, and its snapshot is longer than the first
C8_Witness ==
    /\ Len(acc) >= 2
    /\ acc[1].to_square_i = 1
    /\ acc[2].from_square_i = 1
    /\ Len(acc[2].symbols) > Len(acc[1].symbols)

-----------------------------------------------------------------------------
(* Properties of the accesses *)

\* C9: program[i] returns the state at list position i - 1 when
\* 1 <= i <= N, and raises IndexError, returning no state, for every other i.
C9_ProgramLookup ==
    last.op = "Program.__getitem__"
        => IF 1 <= last.arg[1] /\ last.arg[1] <= Len(program)
           THEN last.exc = "none" /\ last.val = <<program[last.arg[1]]>>
           ELSE last.exc = "IndexError" /\ last.val = <<>>

\* C9 witness: the lookup of index 2 has returned the second state of a
\* table whose first state differs from it
C9_Witness ==
    /\ last.op = "Program.__getitem__"
    /\ last.arg = <<2>>
    /\ last.exc = "none"
    /\ Len(program) >= 2
    /\ last.val[1] = program[2]
    /\ last.val[1] # program[1]

\* C10: a read or a write of the tape at a position outside 0..len-1,
\* negative positions included, raises an out-of-range error, returns no
\* cell and leaves the tape as it is.
C10_TapeAccess ==
    [][(/\ last'.op \in {"Tape.__getitem__", "Tape.setsymbol"}
        /\ last'.arg[1] \notin 0..(Len(tape) - 1))
        => /\ last'.exc = "IndexError"
           /\ last'.val = <<>>
           /\ tape' = tape]_vars

-----------------------------------------------------------------------------
(* Properties of the default Tape *)

\* C11: a Tape built with no arguments has exactly one blank square when
\* it is built, whatever was done before to other Tapes built with no
\* arguments or to a Machine that holds one.
C11_DefaultTapeIsBlank ==
    last.op = "Tape.__init__" => last.val = <<(<<Square_default>>)>>

-----------------------------------------------------------------------------
(* Properties of the trace and of the Adder *)

\* C12: the Moves collected so far stay as they are while the run goes on,
\* the trace that operate delivers is the list of those Moves, and no step,
\* rewind or new tape changes the Moves of self.moves.
C12_MovesAreFixed ==
    [][/\ (pc = "operate" /\ pc' = "operate")
            => /\ Len(acc') >= Len(acc)
               /\ \A k \in 1..Len(acc) : acc'[k] = acc[k]
       /\ (pc = "operate" /\ pc' = "operated") => moves' = <<acc>>
       /\ ~(pc = "operate" /\ pc' = "operated") => moves' = moves]_vars

\* C12 witness: after a run the machine got a new tape and ran again; the
\* first Move of the new run and the Moves of the earlier run show tapes
\* that differ from the tape as it is now
C12_Witness ==
    /\ pc = "operate"
    /\ Len(acc) >= 2
    /\ moves # <<>>
    /\ Len(moves[1]) >= 2
    /\ acc[1].symbols # tape
    /\ \A k \in 1..Len(moves[1]) : Len(moves[1][k].symbols) # Len(tape)

\* the lengths of the maximal runs of marked squares, from left to right
RECURSIVE MarkedRuns(_)
MarkedRuns(squares) ==
    IF squares = <<>> THEN <<>>
    ELSE IF ~Head(squares) THEN MarkedRuns(Tail(squares))
    ELSE LET rest == MarkedRuns(Tail(squares))
         IN  IF Len(squares) > 1 /\ squares[2]
             THEN <<Head(rest) + 1>> \o Tail(rest)
             ELSE <<1>> \o rest

\* C13: a run of the adder table on m marks, a blank and n marks comes to
\* its end in the Halted state, and the marked squares of the final tape
\* form one block.
C13_AdderMerges ==
    /\ (pc = "operate") ~> (pc = "operated" /\ state_i = 0)
    /\ [](pc = "operated" => Len(MarkedRuns(tape)) = 1)

\* C13 witness: the run on xxxoxxx has ended
C13_Witness ==
    /\ pc = "operated"
    /\ pattern = UnaryPair(3, 3)
    /\ state_i = 0
    /\ Len(moves[1]) > 3

\* C14 as stated: the run on xxxxxox ends with one block of 6 marks
C14_Original ==
    (pc = "operated" /\ pattern = UnaryPair(5, 1))
        => MarkedRuns(tape) = <<6>>

\* C14, amended: the run on xxxxxox comes to its end in the Halted state
\* and the final tape has one block of marked squares, of length 5.
C14_AdderExample ==
    /\ (pc = "operate" /\ pattern = UnaryPair(5, 1))
            ~> (pc = "operated" /\ state_i = 0)
    /\ []((pc = "operated" /\ pattern = UnaryPair(5, 1))
            => MarkedRuns(tape) = <<5>>)

\* C14 witness: the run on xxxxxox has ended
C14_Witness ==
    /\ pc = "operated"
    /\ pattern = UnaryPair(5, 1)
    /\ state_i = 0
    /\ moves[1][Len(moves[1])].symbols = tape

-----------------------------------------------------------------------------
(* Programs that do not halt, and the edges of the tape *)

\* state i of the table goes to itself on both symbols
SelfLoop(i) ==
    /\ i \in 1..Len(program)
    /\ program[i].when_false.state_i = i
    /\ program[i].when_true.state_i = i

\* C15: with a table whose state 1 goes to itself on both symbols the
\* machine is never Halted: no call of __next__ raises, operate never ends,
\* and the Moves of the running operate are as many as the steps taken since
\* it began; in any state that goes to itself a step is completed, counts as
\* one step and leaves the machine in that state.
C15_SelfLoopNeverHalts ==
    /\ [](SelfLoop(1) =>
            /\ state_i = 1
            /\ last.exc = "none"
            /\ pc # "operated"
            /\ clock <= MaxSteps
            /\ (pc = "operate" => Len(acc) = clock - started))
    /\ [][(SelfLoop(state_i) /\ NextCalled) =>
            /\ last'.exc = "none"
            /\ state_i' = state_i
            /\ clock' = clock + 1]_vars

\* C15 witness: operate has taken MaxSteps steps from the start, the model
\* takes no further step, and the machine is still in state 1
C15_Witness ==
    /\ SelfLoop(1)
    /\ pc = "operate"
    /\ started = 0
    /\ clock = MaxSteps
    /\ Len(acc) = MaxSteps
    /\ state_i = 1

\* C16: a completed step that goes left with the head on square 0 puts one
\* blank square in front of the tape: the stamped square and every other
\* square keep their symbols one index further, and the head stays 0, on
\* the new blank square.  On the tape 'o' with a state 1 that goes left on
\* both symbols the first step is completed and leaves 2 squares, head 0.
C16_LeftEdge ==
    [][/\ (StepDone /\ ~Scanned.goes_right /\ square_i = 0)
            => /\ Len(tape') = Len(tape) + 1
               /\ tape'[1] = FALSE
               /\ tape'[2] = Scanned.symbol
               /\ \A k \in 2..Len(tape) : tape'[k + 1] = tape[k]
               /\ square_i' = 0
       /\ (/\ NextCalled
           /\ last.op = "__init__"
           /\ tape = <<FALSE>>
           /\ Len(program) >= 1
           /\ ~program[1].when_false.goes_right
           /\ ~program[1].when_true.goes_right)
            => /\ last'.exc = "none"
               /\ Len(tape') = 2
               /\ square_i' = 0]_vars

\* C16 witness: the one step taken went left from square 0 of the tape 'o'
\* and wrote x: the mark is on square 1 and the head on the new square 0
C16_Witness ==
    /\ clock = 1
    /\ last.op = "__next__"
    /\ last.exc = "none"
    /\ Len(program) >= 1
    /\ ~program[1].when_false.goes_right
    /\ program[1].when_false.symbol
    /\ ~program[1].when_true.goes_right
    /\ ~program[1].when_true.symbol
    /\ tape = <<FALSE, TRUE>>
    /\ square_i = 0

\* C17: a completed step that goes right with the head on the last square
\* puts one blank square behind the tape, leaves every square at its index
\* with its symbol (the scanned square has the stamped symbol) and moves
\* the head onto the new square, the last one; with the head on another
\* square a step to the right adds 1 to the head and the tape keeps its
\* length.
C17_RightEdge ==
    [][(StepDone /\ Scanned.goes_right)
        => /\ square_i' = square_i + 1
           /\ tape'[square_i + 1] = Scanned.symbol
           /\ \A k \in 1..Len(tape) :
                 k # square_i + 1 => tape'[k] = tape[k]
           /\ IF square_i = Len(tape) - 1
              THEN /\ Len(tape') = Len(tape) + 1
                   /\ tape'[Len(tape')] = FALSE
                   /\ square_i' = Len(tape') - 1
              ELSE Len(tape') = Len(tape)]_vars

\* C17 witness: MaxTapeLen steps to the right from square 0 have taken the
\* head past the end of a tape of MaxTapeLen squares; the last step marked
\* the last square it had and fed a blank one
C17_Witness ==
    /\ clock = MaxTapeLen
    /\ last.op = "__next__"
    /\ last.exc = "none"
    /\ Len(tape) = MaxTapeLen + 1
    /\ square_i = MaxTapeLen
    /\ last.val[1].from_square_i = MaxTapeLen - 1
    /\ tape[MaxTapeLen]
    /\ ~tape[MaxTapeLen + 1]

-----------------------------------------------------------------------------
(* Tables with a next state that is not in the table *)

\* k is not 0 and not the index of a state of the table
IllFormed(k) == k < 0 \/ k > Len(program)

\* C18: a table with a behavior whose next state k is not in 0..N is taken
\* as it is.  The step that applies this behavior is completed: it stamps,
\* moves the head, goes to state k and returns a Move with to_state_i = k.
\* The step after it raises IndexError, returns no Move and leaves the
\* tape, the head and the state index as they were.
C18_LateLookupError ==
    [][/\ (/\ NextCalled
           /\ state_i \in 1..Len(program)
           /\ IllFormed(Scanned.state_i))
            => /\ last'.exc = "none"
               /\ Len(last'.val) = 1
               /\ last'.val[1].to_state_i = Scanned.state_i
               /\ state_i' = Scanned.state_i
               /\ last'.val[1].symbols = tape'
               /\ tape'[square_i + 1 +
                        (IF ~Scanned.goes_right /\ square_i = 0
                         THEN 1 ELSE 0)] = Scanned.symbol
               /\ square_i' =
                    IF Scanned.goes_right THEN square_i + 1
                    ELSE IF square_i = 0 THEN 0
                    ELSE square_i - 1
               /\ clock' = clock + 1
       /\ (NextCalled /\ IllFormed(state_i))
            => /\ last'.exc = "IndexError"
               /\ last'.val = <<>>
               /\ tape' = tape
               /\ square_i' = square_i
               /\ state_i' = state_i
               /\ program' = program
               /\ clock' = clock]_vars

\* C18 witness: a step has left the machine in the state behind the last
\* state of the table, and the step after it has raised IndexError
C18_Witness ==
    /\ Len(program) >= 1
    /\ state_i = Len(program) + 1
    /\ clock >= 1
    /\ last.op = "__next__"
    /\ last.exc = "IndexError"
    /\ last.val = <<>>

-----------------------------------------------------------------------------
(* The square that a Move points at *)

\* C19: in the Move of every completed step the square from_square_i of
\* its symbols, the square that to_table_row marks with the pointer, has
\* the symbol that the step stamped.
C19_MovePointsAtStamped ==
    [][StepDone
        => last'.val[1].symbols[last'.val[1].from_square_i + 1]
             = Scanned.symbol]_vars

-----------------------------------------------------------------------------
(* What a step leaves alone *)

\* C20: a call of __next__ changes the symbol of no square but the one
\* under the head: the other squares keep their symbols and their order,
\* at their index or, after a feed on the left, one index further; a square
\* that the step adds is blank.  Rewind and the start of operate leave the
\* tape as it is, and nothing changes the table.
C20_StepFrame ==
    [][/\ program' = program
       /\ NextCalled
            => \E off \in {0, 1} :
                 /\ Len(tape') = Len(tape) \/ Len(tape') = Len(tape) + 1
                 /\ Len(tape') = Len(tape) => off = 0
                 /\ \A k \in 1..Len(tape) :
                       k # square_i + 1 => tape'[k + off] = tape[k]
                 /\ Len(tape') = Len(tape) + 1
                      => IF off = 1 THEN ~tape'[1] ELSE ~tape'[Len(tape')]
       /\ ~NextCalled => tape' = tape]_vars

\* C20 witness: a table that writes x on o and o on x has gone right
\* MaxTapeLen times, over a tape that began with ox: each step changed the
\* square under the head only, and the square fed at the end is blank
C20_Witness ==
    /\ clock = MaxTapeLen
    /\ last.op = "__next__"
    /\ last.exc = "none"
    /\ Len(program) = 1
    /\ program[1].when_false.symbol
    /\ ~program[1].when_true.symbol
    /\ Len(tape) = MaxTapeLen + 1
    /\ square_i = MaxTapeLen
    /\ tape[1]
    /\ ~tape[2]
    /\ ~tape[Len(tape)]

=============================================================================
